---- MODULE Spec2Model ----
(***************************************************************************)
(* Model of the serde-xdr codec: the Serializer (src/src/serializer.rs),   *)
(* the Deserializer (src/src/deserializer.rs) and the entry points and the *)
(* xdr_enum macro (src/src/lib.rs).                                        *)
(*                                                                         *)
(* A type is a record [k, n, nm, ts]: kind, a number (the declared value   *)
(* of an enum variant, or the size of the value universe of a text or a    *)
(* sequence), a name (the characters of a variant name) and the component  *)
(* types.  A value is a record [k, n, cs, xs]: kind, a number (an integer, *)
(* a boolean as 0/1, or the zero-based index of a variant), the code       *)
(* points of a text and the component values.                              *)
(*                                                                         *)
(* Integers are those of TLC: values of 32- and 64-bit types are drawn     *)
(* from -2^31 .. 2^31-1.  A float is the unsigned number of its bits.      *)
(***************************************************************************)
EXTENDS Integers, Sequences, FiniteSets, TLC

VARIABLES typ, val, ser, de, input, op, seq

vars == <<typ, val, ser, de, input, op, seq>>

(***************************************************************************)
(* Bounds of the value universe.                                           *)
(***************************************************************************)
MaxStrLen == 4

MaxFieldStrLen == 1

MaxSeqLen == 3

MaxCap == 6

MaxSelector == 6

MaxRequests == 5

Ty(k, n, nm, ts) == [k |-> k, n |-> n, nm |-> nm, ts |-> ts]

Val(k, n, cs, xs) == [k |-> k, n |-> n, cs |-> cs, xs |-> xs]

NoVal == Val("none", 0, <<>>, <<>>)

Prim(k) == Ty(k, 0, <<>>, <<>>)

Variant(k, n, nm, ts) == Ty(k, n, nm, ts)

(***************************************************************************)
(* Width in bytes of the fixed-width numeric kinds.                        *)
(***************************************************************************)
NumKinds == {"u8", "i8", "u16", "i16", "u32", "i32", "u64", "i64"}

FloatKinds == {"f32", "f64"}

Width(k) ==
    CASE k \in {"u8", "i8"} -> 1
      [] k \in {"u16", "i16"} -> 2
      [] k \in {"u32", "i32", "f32"} -> 4
      [] k \in {"u64", "i64", "f64"} -> 8

Signed(k) == k \in {"i8", "i16", "i32", "i64"}

(***************************************************************************)
(* Big-endian two's complement bytes of v in w bytes (byteorder's          *)
(* write_uN / write_iN with BigEndian), and the inverse (read_uN/read_iN). *)
(***************************************************************************)
RECURSIVE ToBE(_, _)
ToBE(v, w) == IF w = 0 THEN <<>> ELSE Append(ToBE(v \div 256, w - 1), v % 256)

RECURSIVE FoldBE(_, _)
FoldBE(acc, bs) == IF bs = <<>> THEN acc ELSE FoldBE(acc * 256 + Head(bs), Tail(bs))

FromBE(bs, signed) ==
    IF bs = <<>> THEN 0
    ELSE IF signed /\ Head(bs) >= 128 THEN FoldBE(Head(bs) - 256, Tail(bs))
    ELSE FoldBE(0, bs)

(***************************************************************************)
(* str::len(): the number of bytes of the UTF-8 encoding of the text.      *)
(***************************************************************************)
Utf8Len(c) == IF c < 128 THEN 1 ELSE IF c < 2048 THEN 2 ELSE IF c < 65536 THEN 3 ELSE 4

RECURSIVE StrLen(_)
StrLen(cs) == IF cs = <<>> THEN 0 ELSE Utf8Len(Head(cs)) + StrLen(Tail(cs))

(***************************************************************************)
(* str::parse::<u32>(): an optional '+', then one or more decimal digits;  *)
(* -1 stands for Err.  Names of the model have fewer than ten digits.      *)
(***************************************************************************)
RECURSIVE ParseDigits(_, _)
ParseDigits(s, acc) ==
    IF s = <<>> THEN acc
    ELSE IF Head(s) \notin 48..57 THEN -1
    ELSE ParseDigits(Tail(s), acc * 10 + (Head(s) - 48))

ParseU32(nm) ==
    LET digits == IF nm # <<>> /\ Head(nm) = 43 THEN Tail(nm) ELSE nm
    IN  IF digits = <<>> THEN -1 ELSE ParseDigits(digits, 0)

(***************************************************************************)
(* The error type: Io(..) or Unknown(message).  "Panic" is the outcome of  *)
(* an unwrap() of an Err: the operation returns no result at all.          *)
(***************************************************************************)
UnknownErrors == {"NotImplemented", "InvalidBool", "BadIndexForUnion",
                  "UnknownEnumValue", "InvalidLength"}

(***************************************************************************)
(* Serializer: the sink takes cap bytes and fails every write after that;  *)
(* a Vec<u8> takes any number of bytes (cap = -1).                         *)
(***************************************************************************)
NewSerializer(cap) == [writer |-> <<>>, cap |-> cap, res |-> "Ok"]

write_all(st, bs) ==
    IF st.res # "Ok" THEN st
    ELSE IF st.cap = -1 \/ Len(st.writer) + Len(bs) <= st.cap
         THEN [st EXCEPT !.writer = @ \o bs]
         ELSE [st EXCEPT !.writer = @ \o SubSeq(bs, 1, st.cap - Len(st.writer)),
                         !.res = "Io"]

(* Result::unwrap() *)
unwrap(st) == IF st.res = "Ok" THEN st ELSE [st EXCEPT !.res = "Panic"]

Fail(st, err) == IF st.res # "Ok" THEN st ELSE [st EXCEPT !.res = err]

serialize_num(st, k, v) == write_all(st, ToBE(v, Width(k)))

serialize_u8(st, v) == write_all(st, ToBE(v, 1))

serialize_u32(st, v) == write_all(st, ToBE(v, 4))

serialize_i32(st, v) == write_all(st, ToBE(v, 4))

(* val as u8 *)
serialize_char(st, c) == serialize_u8(st, c % 256)

RECURSIVE SerializeChars(_, _)
SerializeChars(st, cs) ==
    IF cs = <<>> \/ st.res # "Ok" THEN st
    ELSE SerializeChars(unwrap(serialize_char(st, Head(cs))), Tail(cs))

RECURSIVE SerializePad(_, _)
SerializePad(st, n) ==
    IF n = 0 \/ st.res # "Ok" THEN st
    ELSE SerializePad(unwrap(serialize_u8(st, 0)), n - 1)

serialize_str(st, cs) ==
    IF st.res # "Ok" THEN st
    ELSE LET len == StrLen(cs)
             extra_bytes == 4 - (len % 4)
             s1 == unwrap(serialize_u32(st, len))
             s2 == SerializeChars(s1, cs)
         IN  SerializePad(s2, extra_bytes)

(* not_implemented!, serialize_bytes, serialize_some, serialize_map: an    *)
(* Unknown error before any write                                          *)
(* an encoder that writes XDR's optional-data flag for an absent value *)
serialize_none_flag(st) == serialize_u32(st, 0)

serialize_none(st) == Fail(st, "NotImplemented")

serialize_some(st) == Fail(st, "NotImplemented")

serialize_bytes(st) == Fail(st, "NotImplemented")

serialize_map(st) == Fail(st, "NotImplemented")

serialize_f32(st) == Fail(st, "NotImplemented")

serialize_f64(st) == Fail(st, "NotImplemented")

serialize_unit_struct(st) == Fail(st, "NotImplemented")

serialize_newtype_struct(st) == Fail(st, "NotImplemented")

serialize_tuple_variant(st) == Fail(st, "NotImplemented")

serialize_unit(st) == st

serialize_bool(st, v) == write_all(st, <<IF v THEN 1 ELSE 0>>)

serialize_newtype_variant(st) == Fail(st, "NotImplemented")

serialize_unit_variant(st, variant_index) == serialize_i32(st, variant_index)

(* an encoder that writes the count of a sequence in one byte *)
serialize_seq_u8_count(st, len) ==
    IF st.res # "Ok" THEN st ELSE unwrap(serialize_u8(st, len))

(* len = -1 is None: len.unwrap() panics before the count is written *)
serialize_seq(st, len) ==
    IF st.res # "Ok" THEN st
    ELSE IF len = -1 THEN [st EXCEPT !.res = "Panic"]
    ELSE unwrap(serialize_u32(st, len))

serialize_tuple(st, len) == serialize_seq(st, len)

serialize_tuple_struct(st, len) == serialize_seq(st, len)

(* SerializeTuple and SerializeTupleStruct for Compound: every element,   *)
(* every field and end() fail                                             *)
tuple_serialize_element(st) == Fail(st, "NotImplemented")

tuple_struct_serialize_field(st) == Fail(st, "NotImplemented")

tuple_end(st) == Fail(st, "NotImplemented")

serialize_struct(st, len) == st

serialize_struct_variant(st, variant_idx, variant) ==
    IF st.res # "Ok" THEN st
    ELSE LET descr_idx == ParseU32(variant)
         IN  IF descr_idx # -1 THEN unwrap(serialize_u32(st, descr_idx))
             ELSE unwrap(serialize_u32(st, variant_idx + 1))

(***************************************************************************)
(* value.serialize(&mut ser): the value drives the serializer according to *)
(* its type (serde's derived and standard Serialize implementations; the   *)
(* xdr_enum macro for its enums).  Every step after a failure is skipped.  *)
(***************************************************************************)
RECURSIVE Serialize(_, _, _), SerializeAll(_, _, _)
SerializeAll(ts, xs, st) ==
    IF xs = <<>> \/ st.res # "Ok" THEN st
    ELSE SerializeAll(Tail(ts), Tail(xs), Serialize(Head(ts), Head(xs), st))

Serialize(t, v, st) ==
    IF st.res # "Ok" THEN st
    ELSE CASE t.k \in NumKinds -> serialize_num(st, t.k, v.n)
           [] t.k = "bool" -> serialize_bool(st, v.n = 1)
           [] t.k = "str" -> serialize_str(st, v.cs)
           [] t.k = "seq" ->
                SerializeAll([i \in 1..Len(v.xs) |-> t.ts[1]], v.xs,
                             serialize_seq(st, Len(v.xs)))
           [] t.k = "struct" ->
                SerializeAll(t.ts, v.xs, serialize_struct(st, Len(t.ts)))
           [] t.k = "xdr_enum" -> serialize_i32(st, t.ts[v.n + 1].n)
           [] t.k = "option" -> IF v.n = 0 THEN serialize_none(st) ELSE serialize_some(st)
           [] t.k = "bytes" -> serialize_bytes(st)
           [] t.k = "map" -> serialize_map(st)
           [] t.k = "f32" -> serialize_f32(st)
           [] t.k = "f64" -> serialize_f64(st)
           [] t.k = "char" -> serialize_char(st, v.n)
           [] t.k = "unit_type" -> serialize_unit(st)
           [] t.k = "unit_struct" -> serialize_unit_struct(st)
           [] t.k = "newtype_struct" -> serialize_newtype_struct(st)
           [] t.k = "tuple" ->
                LET s1 == serialize_tuple(st, Len(v.xs))
                IN  IF v.xs # <<>> THEN tuple_serialize_element(s1) ELSE tuple_end(s1)
           [] t.k = "tuple_struct" ->
                LET s1 == serialize_tuple_struct(st, Len(v.xs))
                IN  IF v.xs # <<>> THEN tuple_struct_serialize_field(s1) ELSE tuple_end(s1)
           [] t.k = "iter" ->
                SerializeAll([i \in 1..Len(v.xs) |-> t.ts[1]], v.xs, serialize_seq(st, -1))
           [] t.k \in {"enum", "union"} ->
                LET variant == t.ts[v.n + 1]
                IN  CASE variant.k = "unit" -> serialize_unit_variant(st, v.n)
                      [] variant.k = "newtype" -> serialize_newtype_variant(st)
                      [] variant.k = "tuplev" -> serialize_tuple_variant(st)
                      [] variant.k = "structv" ->
                           SerializeAll(variant.ts, v.xs,
                                        serialize_struct_variant(st, v.n, variant.nm))

(* to_bytes(value, buf): the encoding is appended to the Vec<u8>, which    *)
(* never fails a write                                                     *)
to_bytes(t, v, buf) == Serialize(t, v, [NewSerializer(-1) EXCEPT !.writer = buf])

(***************************************************************************)
(* Deserializer: reader holds the bytes not yet taken from the source;     *)
(* sel is the index of the union variant variant_seed selected last (-1:   *)
(* none).                                                                  *)
(***************************************************************************)
NewDeserializer(bytes) ==
    [reader |-> bytes, bytes_consumed |-> 0, res |-> "Ok", val |-> NoVal, sel |-> -1]

DFail(d, err) == [d EXCEPT !.res = err, !.val = NoVal]

Drop(bs, n) == SubSeq(bs, n + 1, Len(bs))

(* Read for Deserializer: one read of the source, a byte slice, into a     *)
(* buffer of n bytes; bytes_consumed is left alone                         *)
read(d, n) ==
    LET m == IF n < Len(d.reader) THEN n ELSE Len(d.reader)
    IN  [d EXCEPT !.reader = Drop(@, m),
                  !.res = "Ok",
                  !.val = Val("read", m, SubSeq(d.reader, 1, m), <<>>)]

(* impl_num!, deserialize_u8, deserialize_i8: read, visit, then count.     *)
(* Deserializer implements Read::read only, so read_exact takes the bytes  *)
(* a short source still holds before it fails with UnexpectedEof.          *)
deserialize_num(d, k) ==
    LET w == Width(k)
    IN  IF Len(d.reader) < w THEN DFail([d EXCEPT !.reader = <<>>], "Io")
        ELSE [d EXCEPT !.reader = Drop(@, w),
                       !.bytes_consumed = @ + w,
                       !.val = Val(k, FromBE(SubSeq(d.reader, 1, w), Signed(k)), <<>>, <<>>)]

deserialize_u8(d) == deserialize_num(d, "u8")

deserialize_u32(d) == deserialize_num(d, "u32")

deserialize_i32(d) == deserialize_num(d, "i32")

deserialize_string(d) ==
    IF Len(d.reader) < 4 THEN DFail([d EXCEPT !.reader = <<>>], "Io")
    ELSE LET count == FromBE(SubSeq(d.reader, 1, 4), FALSE)
             extra_bytes == 4 - (count % 4)
             rest == Drop(d.reader, 4)
         IN  IF Len(rest) < count
             THEN DFail([d EXCEPT !.reader = <<>>], "Io")
             ELSE [d EXCEPT !.reader = Drop(rest, count),
                            !.bytes_consumed = @ + extra_bytes + count + 4,
                            !.val = Val("str", 0, SubSeq(rest, 1, count), <<>>)]

(* a decoder that takes every nonzero byte for true *)
deserialize_bool_nonzero(d) ==
    LET d1 == deserialize_u8(d)
    IN  IF d1.res # "Ok" THEN d1
        ELSE [d1 EXCEPT !.val = Val("bool", IF d1.val.n = 0 THEN 0 ELSE 1, <<>>, <<>>)]

deserialize_bool(d) ==
    LET d1 == deserialize_u8(d)
    IN  IF d1.res # "Ok" THEN d1
        ELSE CASE d1.val.n = 1 -> [d1 EXCEPT !.val = Val("bool", 1, <<>>, <<>>)]
               [] d1.val.n = 0 -> [d1 EXCEPT !.val = Val("bool", 0, <<>>, <<>>)]
               [] OTHER -> DFail(d1, "InvalidBool")

deserialize_any(d) == DFail(d, "NotImplemented")

deserialize_identifier(d) == deserialize_any(d)

deserialize_unit(d) == DFail(d, "NotImplemented")

deserialize_char(d) == DFail(d, "NotImplemented")

deserialize_unit_struct(d) == DFail(d, "NotImplemented")

deserialize_tuple(d) == DFail(d, "NotImplemented")

deserialize_tuple_struct(d) == DFail(d, "NotImplemented")

deserialize_option(d) == DFail(d, "NotImplemented")

deserialize_byte_buf(d) == DFail(d, "NotImplemented")

deserialize_map(d) == DFail(d, "NotImplemented")

(***************************************************************************)
(* VariantVisitor::variant_seed.  For a union: the position of the first   *)
(* name that parses to the selector, searched only when the selector is    *)
(* below the number of variants; the names before it are parsed with       *)
(* unwrap().  Without a variant, len() - 1 overflows (debug build) or the  *)
(* seed rejects the index and the result is unwrapped (release build).     *)
(* For an enum: the seed asks for an identifier.                           *)
(***************************************************************************)
RECURSIVE Position(_, _, _)
Position(variants, enum_index, i) ==
    IF i > Len(variants) THEN [found |-> FALSE, idx |-> -1, panic |-> FALSE]
    ELSE LET x == ParseU32(variants[i].nm)
         IN  IF x = -1 THEN [found |-> FALSE, idx |-> -1, panic |-> TRUE]
             ELSE IF x = enum_index THEN [found |-> TRUE, idx |-> i - 1, panic |-> FALSE]
             ELSE Position(variants, enum_index, i + 1)

variant_seed(d, style, variants) ==
    IF style = "Union"
    THEN LET d1 == deserialize_u32(d)
             enum_index == d1.val.n
         IN  IF d1.res # "Ok" THEN d1
             ELSE IF Len(variants) = 0 THEN DFail(d1, "Panic")
             ELSE IF enum_index < Len(variants)
             THEN LET ids == Position(variants, enum_index, 1)
                  IN  IF ids.panic THEN DFail(d1, "Panic")
                      ELSE IF ids.found THEN [d1 EXCEPT !.sel = ids.idx, !.val = NoVal]
                      ELSE DFail(d1, "BadIndexForUnion")
             ELSE [d1 EXCEPT !.sel = Len(variants) - 1, !.val = NoVal]
    ELSE deserialize_identifier(d)

(***************************************************************************)
(* SeqVisitor::next_element_seed: sv = [d, len, some], len = -1 for None.  *)
(* The second operator is a visitor that takes a count of zero for a count *)
(* not yet read.                                                           *)
(* Deserialize(t, d) is the seed's deserialize.                            *)
(***************************************************************************)
RECURSIVE Deserialize(_, _), VisitStruct(_, _, _), VisitVec(_, _, _)
next_element_seed_reread(sv, t) ==
    LET d0 == IF sv.len \in {-1, 0} THEN deserialize_u32(sv.d) ELSE sv.d
        len == IF sv.len \in {-1, 0} THEN d0.val.n ELSE sv.len
    IN  IF d0.res # "Ok" THEN [d |-> d0, len |-> sv.len, some |-> FALSE]
        ELSE IF len > 0
        THEN [d |-> Deserialize(t, d0), len |-> len - 1, some |-> TRUE]
        ELSE [d |-> d0, len |-> len, some |-> FALSE]

next_element_seed(sv, t) ==
    LET d0 == IF sv.len = -1 THEN deserialize_u32(sv.d) ELSE sv.d
        len == IF sv.len = -1 THEN d0.val.n ELSE sv.len
    IN  IF d0.res # "Ok" THEN [d |-> d0, len |-> sv.len, some |-> FALSE]
        ELSE IF len > 0
        THEN [d |-> Deserialize(t, d0), len |-> len - 1, some |-> TRUE]
        ELSE [d |-> d0, len |-> len, some |-> FALSE]

(* the derived visit_seq of a struct: one next_element per field *)
VisitStruct(ts, sv, acc) ==
    IF ts = <<>> THEN [sv.d EXCEPT !.val = Val("struct", 0, <<>>, acc)]
    ELSE LET r == next_element_seed(sv, Head(ts))
         IN  IF r.d.res # "Ok" THEN DFail(r.d, r.d.res)
             ELSE IF ~r.some THEN DFail(r.d, "InvalidLength")
             ELSE VisitStruct(Tail(ts), r, Append(acc, r.d.val))

(* visit_seq of Vec<T>: next_element until it returns None *)
VisitVec(t, sv, acc) ==
    LET r == next_element_seed(sv, t)
    IN  IF r.d.res # "Ok" THEN DFail(r.d, r.d.res)
        ELSE IF ~r.some THEN [r.d EXCEPT !.val = Val("seq", 0, <<>>, acc)]
        ELSE VisitVec(t, r, Append(acc, r.d.val)) 

SeqVisitor(d, size) == [d |-> d, len |-> size, some |-> FALSE]

deserialize_struct(d, fields) == VisitStruct(fields, SeqVisitor(d, Len(fields)), <<>>)

deserialize_seq(d, t) == VisitVec(t, SeqVisitor(d, -1), <<>>)

(* VariantAccess for VariantVisitor *)
unit_variant(d) == deserialize_unit(d)

newtype_variant_seed(d, t) == Deserialize(t, d)

struct_variant(d, fields) == VisitStruct(fields, SeqVisitor(d, Len(fields)), <<>>)

tuple_variant(d, ts) == VisitStruct(ts, SeqVisitor(d, Len(ts)), <<>>)

(* deserialize_newtype_struct: visit_newtype_struct decodes the inner value *)
deserialize_newtype_struct(d, t) ==
    LET d1 == Deserialize(t, d)
    IN  IF d1.res # "Ok" THEN d1
        ELSE [d1 EXCEPT !.val = Val("newtype_struct", 0, <<>>, <<d1.val>>)]

(***************************************************************************)
(* deserialize_enum and the derived visit_enum: variant_seed, then the     *)
(* VariantAccess method of the selected variant's kind.                    *)
(***************************************************************************)
VariantAccess(d, variant) ==
    CASE variant.k = "unit" -> unit_variant(d)
      [] variant.k = "newtype" -> newtype_variant_seed(d, variant.ts[1])
      [] variant.k = "structv" -> struct_variant(d, variant.ts)
      [] variant.k = "tuplev" -> tuple_variant(d, variant.ts)

(* the value the derived visitor builds from the payload d2 decoded *)
EnumValue(d2, name, sel, variant) ==
    IF d2.res # "Ok" THEN d2
    ELSE [d2 EXCEPT !.val =
             Val(name, sel, <<>>,
                 CASE variant.k = "unit" -> <<>>
                   [] variant.k = "newtype" -> <<d2.val>>
                   [] variant.k = "structv" -> d2.val.xs
                   [] variant.k = "tuplev" -> d2.val.xs)]

(* d1 is the deserializer after variant_seed *)
visit_enum(d1, name, variants) ==
    IF d1.res # "Ok" THEN d1
    ELSE EnumValue(VariantAccess(d1, variants[d1.sel + 1]), name, d1.sel,
                   variants[d1.sel + 1])

deserialize_enum(d, name, variants) ==
    visit_enum(variant_seed(d, IF name = "union" THEN "Union" ELSE "Enum", variants),
               name, variants)

(* xdr_enum!: deserialize_i32 with a visitor matching the declared values *)
xdr_enum_deserialize(d, variants) ==
    LET d1 == deserialize_i32(d)
        hits == {i \in 1..Len(variants) : variants[i].n = d1.val.n}
    IN  IF d1.res # "Ok" THEN d1
        ELSE IF hits = {} THEN DFail(d1, "UnknownEnumValue")
        ELSE [d1 EXCEPT !.val = Val("xdr_enum", (CHOOSE i \in hits : \A j \in hits : i <= j) - 1,
                                    <<>>, <<>>)]

Deserialize(t, d) ==
    CASE t.k \in NumKinds \cup FloatKinds -> deserialize_num(d, t.k)
      [] t.k = "bool" -> deserialize_bool(d)
      [] t.k = "str" -> deserialize_string(d)
      [] t.k = "seq" -> deserialize_seq(d, t.ts[1])
      [] t.k = "struct" -> deserialize_struct(d, t.ts)
      [] t.k \in {"enum", "union"} -> deserialize_enum(d, t.k, t.ts)
      [] t.k = "xdr_enum" -> xdr_enum_deserialize(d, t.ts)
      [] t.k = "option" -> deserialize_option(d)
      [] t.k = "bytes" -> deserialize_byte_buf(d)
      [] t.k = "map" -> deserialize_map(d)
      [] t.k = "any" -> deserialize_any(d)
      [] t.k = "char" -> deserialize_char(d)
      [] t.k = "unit_type" -> deserialize_unit(d)
      [] t.k = "unit_struct" -> deserialize_unit_struct(d)
      [] t.k = "tuple" -> deserialize_tuple(d)
      [] t.k = "tuple_struct" -> deserialize_tuple_struct(d)
      [] t.k = "newtype_struct" -> deserialize_newtype_struct(d, t.ts[1])

(* from_reader / from_bytes *)
from_reader(t, bytes) == Deserialize(t, NewDeserializer(bytes))

(***************************************************************************)
(* The types and values the operations are applied to.                     *)
(***************************************************************************)
Str(n) == Ty("str", n, <<>>, <<>>)

SeqT(t, n) == Ty("seq", n, <<>>, <<t>>)

StructT(ts) == Ty("struct", 0, <<>>, ts)

Digit(n) == <<48 + n>>

StructAB == StructT(<<Prim("u32"), Prim("u8")>>)

StructTextFirst == StructT(<<Str(MaxFieldStrLen), Prim("u32")>>)

StructTextLast == StructT(<<Prim("u8"), Str(MaxFieldStrLen)>>)

StructTextSeq == StructT(<<Str(MaxFieldStrLen), SeqT(Prim("u8"), 1)>>)

StructNested == StructT(<<StructAB, Prim("bool")>>)

(* a union whose names are the positions *)
UnionPositional ==
    Ty("union", 0, <<>>,
       <<Variant("unit", 0, Digit(0), <<>>),
         Variant("newtype", 0, Digit(1), <<Prim("u32")>>),
         Variant("structv", 0, Digit(2), <<Prim("u32"), Prim("u8")>>)>>)

(* a union with a name above the number of variants *)
UnionSparse ==
    Ty("union", 0, <<>>,
       <<Variant("structv", 0, Digit(5), <<Prim("u8")>>),
         Variant("structv", 0, Digit(0), <<Prim("u32")>>)>>)

(* a union whose names are a permutation of the positions *)
UnionPermuted ==
    Ty("union", 0, <<>>,
       <<Variant("structv", 0, Digit(1), <<Prim("u8")>>),
         Variant("unit", 0, Digit(0), <<>>),
         Variant("newtype", 0, Digit(2), <<Prim("u8")>>)>>)

(* a union with a name that is not a number ("A") *)
UnionNamed ==
    Ty("union", 0, <<>>,
       <<Variant("structv", 0, Digit(1), <<Prim("u8")>>),
         Variant("structv", 0, <<65>>, <<Prim("u8")>>)>>)

(* a union without variants *)
UnionEmpty == Ty("union", 0, <<>>, <<>>)

(* #[derive] enum E { A = 5, B = 2, C = -1 } *)
EnumDerived ==
    Ty("enum", 0, <<>>,
       <<Variant("unit", 5, <<65>>, <<>>),
         Variant("unit", 2, <<66>>, <<>>),
         Variant("unit", -1, <<67>>, <<>>)>>)

(* xdr_enum!(E { A = 5, B = 2, C = -1, }) *)
EnumMacro == [EnumDerived EXCEPT !.k = "xdr_enum"]

(* Option<u8>, serde_bytes::ByteBuf, a map from u8 to u8, and a target    *)
(* that asks for deserialize_any                                           *)
OptionT == Ty("option", 0, <<>>, <<Prim("u8")>>)

BytesT == Ty("bytes", 0, <<>>, <<>>)

MapT == Ty("map", 0, <<>>, <<Prim("u8"), Prim("u8")>>)

AnyT == Ty("any", 0, <<>>, <<>>)

StructWithOption == StructT(<<Prim("u32"), OptionT>>)

UnsupportedKinds == {"option", "bytes", "map", "any"}

(* struct NewT(u8), the tuple (u8, u8) and the array [u8; 2], the array   *)
(* [u8; 0], struct TupleS(u8, u8), and a sequence serialized from an      *)
(* iterator of unknown length (serialize_seq(None))                       *)
NewtypeT == Ty("newtype_struct", 0, <<>>, <<Prim("u8")>>)

TupleT == Ty("tuple", 0, <<>>, <<Prim("u8"), Prim("u8")>>)

ArrayEmpty == Ty("tuple", 0, <<>>, <<>>)

TupleStructT == Ty("tuple_struct", 0, <<>>, <<Prim("u8"), Prim("u8")>>)

IterT == Ty("iter", 1, <<>>, <<Prim("u8")>>)

(* a union with a tuple variant *)
UnionTuple ==
    Ty("union", 0, <<>>,
       <<Variant("tuplev", 0, Digit(0), <<Prim("u32"), Prim("u8")>>),
         Variant("structv", 0, Digit(1), <<Prim("u8")>>)>>)

(* the kinds whose decode request is not implemented, besides the         *)
(* UnsupportedKinds                                                        *)
UndecodableKinds == {"char", "unit_type", "unit_struct", "tuple", "tuple_struct"}

Types ==
    {Prim(k) : k \in NumKinds \cup FloatKinds \cup {"bool", "char", "unit_type", "unit_struct"}}
    \cup {NewtypeT, TupleT, ArrayEmpty, TupleStructT, IterT, UnionTuple}
    \cup {Str(MaxStrLen), SeqT(Prim("u32"), MaxSeqLen), SeqT(Prim("u8"), MaxSeqLen),
          SeqT(Prim("i64"), MaxSeqLen), SeqT(Prim("u16"), MaxSeqLen),
          StructAB, StructTextFirst, StructTextLast, StructTextSeq, StructNested,
          UnionPositional, UnionSparse, UnionPermuted, UnionNamed, UnionEmpty,
          EnumDerived, EnumMacro,
          OptionT, BytesT, MapT, AnyT, StructWithOption}

IntVals(k) ==
    CASE k = "u8" -> {0, 1, 255}
      [] k = "i8" -> {-128, -1, 1}
      [] k = "u16" -> {0, 258, 65535}
      [] k = "i16" -> {-32768, -2, 258}
      [] k = "u32" -> {0, 1, 16909060, 2147483647}
      [] k = "i32" -> {-2147483647 - 1, -1, 0, 7}
      [] k = "u64" -> {0, 258, 2147483647}
      [] k = "i64" -> {-2147483647 - 1, -1, 5}
      [] k = "f32" -> {0, 1069547520}
      [] k = "f64" -> {0, 1069547520}

(* 'a', U+00E9 (two bytes of UTF-8), U+20AC (three bytes of UTF-8) *)
Chars == {97, 233, 8364}

Texts(n) == UNION {[1..m -> Chars] : m \in 0..n}

RECURSIVE ValuesOf(_), Tuples(_)
Tuples(ts) ==
    IF ts = <<>> THEN {<<>>}
    ELSE {<<x>> \o rest : x \in ValuesOf(Head(ts)), rest \in Tuples(Tail(ts))}

ValuesOf(t) ==
    CASE t.k \in NumKinds \cup FloatKinds -> {Val(t.k, n, <<>>, <<>>) : n \in IntVals(t.k)}
      [] t.k = "char" -> {Val("char", c, <<>>, <<>>) : c \in Chars}
      [] t.k \in {"unit_type", "unit_struct"} -> {Val(t.k, 0, <<>>, <<>>)}
      [] t.k \in {"newtype_struct", "tuple", "tuple_struct"} ->
           {Val(t.k, 0, <<>>, xs) : xs \in Tuples(t.ts)}
      [] t.k = "iter" ->
           {Val("iter", 0, <<>>, xs) :
                xs \in UNION {Tuples([i \in 1..m |-> t.ts[1]]) : m \in 0..t.n}}
      [] t.k = "bool" -> {Val("bool", n, <<>>, <<>>) : n \in {0, 1}}
      [] t.k = "str" -> {Val("str", 0, cs, <<>>) : cs \in Texts(t.n)}
      [] t.k = "seq" ->
           {Val("seq", 0, <<>>, xs) :
                xs \in UNION {Tuples([i \in 1..m |-> t.ts[1]]) : m \in 0..t.n}}
      [] t.k = "struct" -> {Val("struct", 0, <<>>, xs) : xs \in Tuples(t.ts)}
      [] t.k = "option" ->
           {Val("option", 0, <<>>, <<>>)}
           \cup {Val("option", 1, <<>>, <<x>>) : x \in ValuesOf(t.ts[1])}
      [] t.k = "bytes" -> {Val("bytes", 0, bs, <<>>) : bs \in {<<>>, <<7>>, <<1, 2, 3, 4>>}}
      [] t.k = "map" ->
           {Val("map", 0, <<>>, <<>>)}
           \cup {Val("map", 0, <<>>, <<x, y>>) :
                     x \in ValuesOf(t.ts[1]), y \in ValuesOf(t.ts[2])}
      [] t.k = "any" -> {}
      [] t.k \in {"enum", "union", "xdr_enum"} ->
           UNION {{Val(t.k, p - 1, <<>>, xs) : xs \in Tuples(t.ts[p].ts)} :
                      p \in 1..Len(t.ts)}

Prefixes(bs) == {SubSeq(bs, 1, m) : m \in 0..Len(bs)}

Tails == {<<>>, <<7>>, <<0, 0, 0, 9, 3>>}

(* the byte strings handed to from_reader for a target type *)
InputsFor(t) ==
    CASE t.k = "bool" -> {<<>>} \cup {<<b>> : b \in 0..255} \cup {<<b, 9>> : b \in 0..255}
      [] t.k = "union" ->
           {<<0, 0>>} \cup {ToBE(s, 4) \o tail : s \in 0..MaxSelector, tail \in Tails}
      [] t.k \in {"enum", "xdr_enum"} ->
           {<<0, 0, 0>>} \cup {ToBE(o, 4) \o tail : o \in -2..MaxSelector, tail \in {<<>>, <<7>>}}
      [] t.k \in UnsupportedKinds \cup UndecodableKinds ->
           {<<>>, <<0, 0, 0, 0>>, <<0, 0, 0, 1, 7>>, <<0, 0, 0, 1, 7, 0, 0, 0>>}
      [] t.k = "f32" -> Prefixes(<<63, 192, 0, 0, 7>>)
      [] t.k = "f64" -> Prefixes(<<0, 0, 0, 0, 63, 192, 0, 0, 7>>)
      [] t.k = "newtype_struct" -> Prefixes(<<7, 8>>)
      [] t.k = "iter" -> {}
      [] t = StructWithOption ->
           {<<0, 0>>, <<0, 0, 0, 5>>, <<0, 0, 0, 5, 0, 0, 0, 1, 7>>}
      [] OTHER ->
           UNION {Prefixes(to_bytes(t, v, <<>>).writer) : v \in ValuesOf(t)}

(***************************************************************************)
(* The state machine: each action is one call of an entry point.  An       *)
(* encoder or decoder serves one session: a behaviour is one encode,       *)
(* optionally followed by the decode of its buffer, or one decode.         *)
(***************************************************************************)
(* the SeqVisitor of a decode in progress: its len (-1 for None), the      *)
(* number of next_element_seed calls made on it, the number of bytes the  *)
(* last call took from the source and what the last call returned         *)
NoSeq == [len |-> -1, requests |-> 0, taken |-> 0, last |-> "none"]

Init ==
    /\ typ = Prim("u8")
    /\ val = NoVal
    /\ ser = NewSerializer(-1)
    /\ de = NewDeserializer(<<>>)
    /\ input = <<>>
    /\ op = "init"
    /\ seq = NoSeq

(* the content of the Vec<u8> handed to to_bytes *)
Buffers == {<<>>, <<9, 8>>}

(* the sources and the buffer lengths of a direct read *)
ReadInputs == {<<>>, <<1>>, <<1, 2, 3>>}

ReadLens == 0..4

(* to_bytes(&v, &mut buf); input records what buf held before the call *)
ToBytes ==
    \E t \in Types : \E v \in ValuesOf(t) : \E buf \in Buffers :
        /\ op = "init"
        /\ typ' = t
        /\ val' = v
        /\ ser' = to_bytes(t, v, buf)
        /\ de' = NewDeserializer(<<>>)
        /\ input' = buf
        /\ op' = "to_bytes"
        /\ UNCHANGED seq

(* v.serialize(&mut Serializer::new(w)) with a sink w that fails after cap bytes *)
SerializeTo ==
    \E t \in Types : \E v \in ValuesOf(t) : \E cap \in 0..MaxCap :
        /\ op = "init"
        /\ typ' = t
        /\ val' = v
        /\ ser' = Serialize(t, v, NewSerializer(cap))
        /\ de' = NewDeserializer(<<>>)
        /\ input' = <<>>
        /\ op' = "serialize"
        /\ UNCHANGED seq

(* from_bytes::<T>(&buf) on a buffer that holds what to_bytes wrote and    *)
(* nothing before it                                                       *)
FromBytes ==
    /\ op = "to_bytes"
    /\ ser.res = "Ok"
    /\ input = <<>>
    /\ input' = ser.writer
    /\ de' = from_reader(typ, ser.writer)
    /\ op' = "from_bytes"
    /\ UNCHANGED <<typ, val, ser, seq>>

(* from_reader::<T, _>(bytes) on bytes of any origin *)
FromReader ==
    \E t \in Types : \E bytes \in InputsFor(t) :
        /\ op = "init"
        /\ typ' = t
        /\ val' = NoVal
        /\ ser' = NewSerializer(-1)
        /\ input' = bytes
        /\ de' = from_reader(t, bytes)
        /\ op' = "from_reader"
        /\ UNCHANGED seq

(* de.read(&mut buf) on a Deserializer the caller made, any number of      *)
(* times                                                                   *)
ReadBytes ==
    \E bytes \in ReadInputs : \E n \in ReadLens :
        /\ op \in {"init", "read"}
        /\ input' = IF op = "init" THEN bytes ELSE input
        /\ de' = read(IF op = "init" THEN NewDeserializer(bytes) ELSE de, n)
        /\ op' = "read"
        /\ UNCHANGED <<typ, val, ser, seq>>

(***************************************************************************)
(* The decode of a Vec<T> step by step: deserialize_seq hands the visitor  *)
(* a SeqVisitor with len = None, and the visitor calls next_element_seed   *)
(* once per request.                                                       *)
(***************************************************************************)
SeqTypes == {SeqT(Prim("u8"), MaxSeqLen), SeqT(Prim("u32"), MaxSeqLen)}

(* the encodings of sequences, followed by bytes of another value, and    *)
(* their truncations                                                      *)
SeqInputs(t) ==
    UNION {Prefixes(to_bytes(t, v, <<>>).writer) \cup
           {to_bytes(t, v, <<>>).writer \o tail : tail \in {<<0, 0, 0, 2>>, <<0, 0, 0, 1, 9, 9, 9, 9>>}} :
               v \in ValuesOf(t)}

DeserializeSeq ==
    \E t \in SeqTypes : \E bytes \in SeqInputs(t) :
        /\ op = "init"
        /\ typ' = t
        /\ input' = bytes
        /\ de' = NewDeserializer(bytes)
        /\ val' = Val("seq", 0, <<>>, <<>>)
        /\ seq' = [NoSeq EXCEPT !.len = SeqVisitor(de', -1).len]
        /\ op' = "deserialize_seq"
        /\ UNCHANGED ser

(* a request is answered whatever the request before it returned *)
NextElement ==
    /\ op \in {"deserialize_seq", "next_element"}
    /\ seq.requests < MaxRequests
    /\ LET r == next_element_seed([d |-> [de EXCEPT !.res = "Ok", !.val = NoVal],
                                   len |-> seq.len, some |-> FALSE], typ.ts[1])
       IN  /\ de' = r.d
           /\ seq' = [len |-> r.len,
                      requests |-> seq.requests + 1,
                      taken |-> Len(de.reader) - Len(r.d.reader),
                      last |-> IF r.d.res # "Ok" THEN "err"
                               ELSE IF r.some THEN "some" ELSE "end"]
           /\ val' = IF r.d.res = "Ok" /\ r.some
                     THEN [val EXCEPT !.xs = Append(@, r.d.val)] ELSE val
    /\ op' = "next_element"
    /\ UNCHANGED <<typ, ser, input>>

SeqNext == DeserializeSeq \/ NextElement

SeqSpec == Init /\ [][SeqNext]_vars

Next == ToBytes \/ SerializeTo \/ FromBytes \/ FromReader \/ ReadBytes

Spec == Init /\ [][Next]_vars

TypeOK ==
    /\ ser.res \in {"Ok", "Panic", "Io"} \cup UnknownErrors
    /\ de.res \in {"Ok", "Panic", "Io"} \cup UnknownErrors
    /\ de.bytes_consumed >= 0

(***************************************************************************)
(* Helpers of the properties.                                              *)
(***************************************************************************)
EncodingOf(t, v) == to_bytes(t, v, <<>>).writer

(* the bytes the encode appended to the sink *)
Written == IF op = "from_bytes" THEN ser.writer ELSE Drop(ser.writer, Len(input))

(* the shapes the round trip is stated for: integers, booleans, text,      *)
(* sequences, structs, and unions of variants with a struct payload, a     *)
(* single value or no payload                                              *)
RoundTripKinds == NumKinds \cup {"bool", "str", "seq", "struct", "union"}

RECURSIVE Supported(_)
Supported(t) ==
    IF t.k = "union"
    THEN \A i \in 1..Len(t.ts) :
             /\ t.ts[i].k \in {"unit", "newtype", "structv"}
             /\ \A j \in 1..Len(t.ts[i].ts) : Supported(t.ts[i].ts[j])
    ELSE /\ t.k \in RoundTripKinds
         /\ \A i \in 1..Len(t.ts) : Supported(t.ts[i])

RECURSIVE ConcatEncodings(_, _)
ConcatEncodings(ts, xs) ==
    IF xs = <<>> THEN <<>>
    ELSE EncodingOf(Head(ts), Head(xs)) \o ConcatEncodings(Tail(ts), Tail(xs))

RoundUp4(n) == ((n + 3) \div 4) * 4

Selector == FromBE(SubSeq(input, 1, 4), FALSE)

Ordinal == FromBE(SubSeq(input, 1, 4), TRUE)

RECURSIVE Ascii(_)
Ascii(v) ==
    /\ \A i \in 1..Len(v.cs) : v.cs[i] < 128
    /\ \A i \in 1..Len(v.xs) : Ascii(v.xs[i])

NumericNames(t) == \A i \in 1..Len(t.ts) : ParseU32(t.ts[i].nm) # -1

(***************************************************************************)
(* C1.  Round trip: for a value of a supported shape (integers, booleans,  *)
(* text, sequences, structs, unions), from_bytes(to_bytes(v)) succeeds and *)
(* returns (v, n) with n the length of the buffer to_bytes(v) produced.    *)
(* Stated for the values whose texts are ASCII, where characters and bytes *)
(* coincide.                                                               *)
(***************************************************************************)
C1_RoundTrip ==
    (op = "from_bytes" /\ Supported(typ) /\ Ascii(val)) =>
        /\ de.res = "Ok"
        /\ de.val = val
        /\ de.bytes_consumed = Len(ser.writer)

(***************************************************************************)
(* C2.  Text padding: the bytes serialize_str writes for a text of length  *)
(* len (prefix, data and pad) number the smallest multiple of 4 that is    *)
(* at least 4 + len.                                                       *)
(***************************************************************************)
C2_TextPadding ==
    (op = "to_bytes" /\ typ.k = "str") =>
        /\ ser.res = "Ok"
        /\ Len(Written) = RoundUp4(4 + StrLen(val.cs))

(***************************************************************************)
(* C3.  Union selector mismatch: when no declared variant name parses to   *)
(* the selector read from the wire, decoding the union fails with the      *)
(* "bad index for union" error and selects no variant.  Stated for the     *)
(* variant lists whose names are all numbers.                              *)
(***************************************************************************)
C3_UnionSelectorMismatch ==
    (/\ op = "from_reader" /\ typ.k = "union" /\ Len(input) >= 4
     /\ Len(typ.ts) > 0 /\ NumericNames(typ)
     /\ \A i \in 1..Len(typ.ts) : ParseU32(typ.ts[i].nm) # Selector) =>
        /\ de.res = "BadIndexForUnion"
        /\ de.sel = -1

(***************************************************************************)
(* C4.  Union mirror rule: for the variant at position p the encoder       *)
(* writes the unsigned-32 its name parses to, then the payload, and the    *)
(* decoder, given the same variant list, selects position p and decodes    *)
(* the same payload.  Stated for variants with a struct payload, a single  *)
(* value or no payload.                                                    *)
(***************************************************************************)
C4_UnionMirror ==
    (op \in {"to_bytes", "from_bytes"} /\ typ.k = "union" /\ Supported(typ)
     /\ NumericNames(typ)) =>
        LET variant == typ.ts[val.n + 1]
        IN  /\ ser.res = "Ok"
            /\ Written = ToBE(ParseU32(variant.nm), 4) \o ConcatEncodings(variant.ts, val.xs)
            /\ op = "from_bytes" =>
                  /\ de.res = "Ok"
                  /\ de.sel = val.n
                  /\ de.val = val

(***************************************************************************)
(* C5.  Enum decode: one signed-32 ordinal is read; an ordinal of the      *)
(* declared table gives its variant, any other ordinal fails with a        *)
(* domain-violation error; no panic, no default variant.                   *)
(***************************************************************************)
C5_EnumDecode ==
    (op = "from_reader" /\ typ.k \in {"enum", "xdr_enum"} /\ Len(input) >= 4) =>
        LET hits == {i \in 1..Len(typ.ts) : typ.ts[i].n = Ordinal}
        IN  /\ de.bytes_consumed = 4
            /\ Len(de.reader) = Len(input) - 4
            /\ hits # {} => (de.res = "Ok" /\ de.val.n + 1 \in hits)
            /\ hits = {} => de.res \in UnknownErrors

(***************************************************************************)
(* C6.  Enum encode: a payload-free enum variant is written as exactly 4   *)
(* bytes, the big-endian signed-32 of its declared numeric value.          *)
(***************************************************************************)
C6_EnumEncode ==
    (op = "to_bytes" /\ typ.k \in {"enum", "xdr_enum"}) =>
        /\ ser.res = "Ok"
        /\ Written = ToBE(typ.ts[val.n + 1].n, 4)

(***************************************************************************)
(* C7.  Boolean domain check: decoding a boolean takes exactly one byte    *)
(* and adds 1 to the consumed counter; 0 gives false, 1 gives true, every  *)
(* other byte fails with the invalid-boolean error.                        *)
(***************************************************************************)
C7_BoolDomain ==
    (op \in {"from_reader", "from_bytes"} /\ typ.k = "bool" /\ Len(input) >= 1) =>
        /\ de.bytes_consumed = 1
        /\ de.reader = Tail(input)
        /\ input[1] = 0 => (de.res = "Ok" /\ de.val = Val("bool", 0, <<>>, <<>>))
        /\ input[1] = 1 => (de.res = "Ok" /\ de.val = Val("bool", 1, <<>>, <<>>))
        /\ input[1] \in 2..255 => (de.res = "InvalidBool" /\ de.val = NoVal)

C7_Witness ==
    /\ op = "from_reader" /\ typ.k = "bool"
    /\ input = <<2, 9>>
    /\ de.res = "InvalidBool"
    /\ de.bytes_consumed = 1

(***************************************************************************)
(* C8.  Sequence framing on encode: a sequence of n elements of fixed      *)
(* width w appends 4 + n*w bytes to the sink, whatever it held: the        *)
(* big-endian unsigned-32 count n, then the n elements in order.           *)
(***************************************************************************)
C8_SeqFraming ==
    (op \in {"to_bytes", "serialize"} /\ typ.k = "seq" /\ ser.res = "Ok") =>
        LET n == Len(val.xs)
            w == Width(typ.ts[1].k)
        IN  /\ Len(Written) = 4 + n * w
            /\ SubSeq(Written, 1, 4) = <<0, 0, 0, n>>
            /\ \A i \in 1..n :
                   SubSeq(Written, 4 + (i - 1) * w + 1, 4 + i * w) = ToBE(val.xs[i].n, w)

C8_Witness ==
    /\ op = "to_bytes" /\ typ = SeqT(Prim("u32"), MaxSeqLen)
    /\ Len(val.xs) = 3
    /\ ser.res = "Ok"
    /\ input = <<9, 8>>
    /\ Len(ser.writer) = 18

(***************************************************************************)
(* C9.  Struct framing: a struct is written as its fields' encodings in    *)
(* declaration order and nothing else, and decoding it consumes exactly    *)
(* the sum of its fields' encoded sizes.  Stated for structs of supported   *)
(* fields and the values whose texts are ASCII, where characters and bytes *)
(* coincide.                                                               *)
(***************************************************************************)
C9_StructFraming ==
    (op \in {"to_bytes", "from_bytes"} /\ typ.k = "struct" /\ Supported(typ)
     /\ Ascii(val)) =>
        /\ ser.res = "Ok"
        /\ Written = ConcatEncodings(typ.ts, val.xs)
        /\ (op = "from_bytes" /\ de.res = "Ok") =>
               de.bytes_consumed = Len(ConcatEncodings(typ.ts, val.xs))

(***************************************************************************)
(* C10.  Failures are values: no encode and no decode ends in a panic;     *)
(* every failure is returned as an error.                                  *)
(***************************************************************************)
C10_NoPanic == ser.res # "Panic" /\ de.res # "Panic"

(***************************************************************************)
(* C11.  Unsupported shapes: encoding an optional value, a byte buffer or  *)
(* a map, and decoding an optional value, a byte buffer, a map or a value  *)
(* without a target shape, fail with an Unknown (non-I/O) error; the       *)
(* failing request writes no byte, reads no byte and leaves the consumed   *)
(* counter unchanged, also after a field that was written or read.         *)
(***************************************************************************)
C11_Unsupported ==
    /\ (op \in {"to_bytes", "serialize"} /\ typ.k \in UnsupportedKinds) =>
           (ser.res \in UnknownErrors /\ Written = <<>>)
    /\ (op = "from_reader" /\ typ.k \in UnsupportedKinds) =>
           /\ de.res \in UnknownErrors
           /\ de.reader = input
           /\ de.bytes_consumed = 0
    /\ (op = "to_bytes" /\ typ = StructWithOption) =>
           (ser.res \in UnknownErrors /\ Written = ToBE(val.xs[1].n, 4))
    /\ (op = "from_reader" /\ typ = StructWithOption /\ Len(input) >= 4) =>
           /\ de.res \in UnknownErrors
           /\ de.reader = Drop(input, 4)
           /\ de.bytes_consumed = 4

C11_Witness ==
    /\ op = "serialize" /\ typ = OptionT /\ val.n = 0
    /\ ser.cap = 0
    /\ ser.res = "NotImplemented"
    /\ ser.writer = <<>>

(***************************************************************************)
(* C12.  Decoder byte accounting for text: a successful deserialize_string *)
(* advances the source past the prefix, the data bytes and the pad bytes   *)
(* the encoder writes for that length, and adds that number to the         *)
(* consumed counter; hence after successful decodes the counter equals the *)
(* number of bytes taken from the source.                                  *)
(***************************************************************************)
C12_TextAccounting ==
    /\ (op \in {"from_reader", "from_bytes"} /\ typ.k = "str" /\ de.res = "Ok") =>
           LET count == FromBE(SubSeq(input, 1, 4), FALSE)
               framed == 4 + count + (4 - (count % 4))
           IN  /\ de.bytes_consumed = framed
               /\ Len(input) - Len(de.reader) = framed
    /\ (op \in {"from_reader", "from_bytes"} /\ de.res = "Ok") =>
           de.bytes_consumed = Len(input) - Len(de.reader)

(***************************************************************************)
(* C14.  Text length prefix: serialize_str writes as prefix the number of  *)
(* characters of the text and then one data byte per character, so the     *)
(* prefix equals the number of data bytes before the padding.              *)
(***************************************************************************)
C14_TextPrefix ==
    (op = "to_bytes" /\ typ.k = "str") =>
        /\ ser.res = "Ok"
        /\ FromBE(SubSeq(Written, 1, 4), FALSE) = Len(val.cs)
        /\ \A i \in 1..Len(val.cs) : Written[4 + i] = val.cs[i] % 256

(***************************************************************************)
(* C13.  Sequence countdown on decode: with a wire count n, the count is   *)
(* read once, on the first request; each of the first n requests decodes   *)
(* and returns one element; every later request signals the end without    *)
(* taking a byte; the remaining count never goes below zero.  The element  *)
(* requests are stated for sources that hold the count and the n elements; *)
(* the remaining count stays within 0..n on every source with a count.     *)
(***************************************************************************)
C13_SeqCountdown ==
    (op = "next_element" /\ Len(input) >= 4) =>
        LET n == FromBE(SubSeq(input, 1, 4), FALSE)
            w == Width(typ.ts[1].k)
            k == seq.requests
            done == IF k <= n THEN k ELSE n
        IN  /\ seq.len \in 0..n
            /\ Len(input) >= 4 + n * w =>
                /\ seq.last # "err"
                /\ seq.len = n - done
                /\ seq.len >= 0
                /\ Len(val.xs) = done
                /\ Len(input) - Len(de.reader) = 4 + done * w
                /\ de.bytes_consumed = 4 + done * w
                /\ k <= n => (seq.last = "some" /\ seq.taken = (IF k = 1 THEN 4 ELSE 0) + w)
                /\ k > n => (seq.last = "end" /\ seq.taken = (IF k = 1 THEN 4 ELSE 0))
                /\ \A i \in 1..done :
                       val.xs[i].n = FromBE(SubSeq(input, 4 + (i - 1) * w + 1, 4 + i * w), FALSE)

C13_Witness ==
    /\ op = "next_element"
    /\ typ = SeqT(Prim("u32"), MaxSeqLen)
    /\ Len(input) > 16
    /\ SubSeq(input, 1, 4) = <<0, 0, 0, 3>>
    /\ seq.requests = 5
    /\ seq.last = "end"
    /\ seq.len = 0
    /\ Len(val.xs) = 3

====
